---------------------------- MODULE Spec2Model ----------------------------
(***************************************************************************)
(* Model of app.py: the Home Assistant MQTT device simulator.              *)
(*                                                                         *)
(* Python strings are sequences of tokens.  The tokenisation is chosen so  *)
(* that every string the code searches for ("/", "binary_sensor",          *)
(* "motion") is a whole token and cannot arise from the concatenation of   *)
(* other tokens: str.split, str.join, the `in` substring test and string   *)
(* equality are then exact on token sequences.                             *)
(*                                                                         *)
(* A Python dict is the sequence of its items in insertion order; an item  *)
(* is <<key, type, value>> with value a token sequence.                    *)
(***************************************************************************)
EXTENDS Integers, Sequences, FiniteSets, TLC

(***************************************************************************)
(* Bounds of the model.                                                    *)
(***************************************************************************)
MaxCatalog == 2
MaxTicks == 2

(***************************************************************************)
(* String and dict primitives.                                             *)
(***************************************************************************)
\* str.split(sep): one segment more than there are separators
RECURSIVE Split(_, _)
Split(s, sep) ==
    IF s = <<>> THEN << <<>> >>
    ELSE LET rest == Split(Tail(s), sep)
         IN  IF Head(s) = sep
             THEN << <<>> >> \o rest
             ELSE << <<Head(s)>> \o rest[1] >> \o Tail(rest)

\* sep.join(segments)
RECURSIVE Join(_, _)
Join(segs, sep) ==
    IF segs = <<>> THEN <<>>
    ELSE IF Len(segs) = 1 THEN segs[1]
    ELSE segs[1] \o <<sep>> \o Join(Tail(segs), sep)

\* needle in s, for a needle that is one token
Contains(needle, s) == \E k \in 1..Len(s) : s[k] = needle

HasKey(d, key) == \E k \in 1..Len(d) : d[k][1] = key

\* d[key]
Get(d, key) == d[CHOOSE k \in 1..Len(d) : d[k][1] = key][3]

Q == "\""

JsonValue(type, v) ==
    IF type = "str" THEN <<Q>> \o v \o <<Q>>
    ELSE IF type = "list"
         THEN <<"[">> \o Join([k \in 1..Len(v) |-> <<Q, v[k], Q>>], ",") \o <<"]">>
         ELSE v

\* json.dumps(dict)
json_dumps(d) ==
    <<"{">> \o
    Join([k \in 1..Len(d) |->
             <<Q, d[k][1], Q, ":">> \o JsonValue(d[k][2], d[k][3])], ",")
    \o <<"}">>

\* position of the first quote token of t at or after position p
RECURSIVE NextQuote(_, _)
NextQuote(t, p) == IF p > Len(t) \/ t[p] = Q THEN p ELSE NextQuote(t, p + 1)

\* the members of a JSON object, t being the text after "{" or ","
RECURSIVE ParseMembers(_)
ParseMembers(t) ==
    IF t = <<>> \/ Head(t) = "}" THEN <<>>
    ELSE LET key    == t[2]
             isStr  == t[5] = Q
             close  == NextQuote(t, 6)
             value  == IF isStr THEN SubSeq(t, 6, close - 1) ELSE <<t[5]>>
             type   == IF isStr THEN "str"
                       ELSE IF t[5] \in {"true", "false"} THEN "bool" ELSE "int"
             next   == IF isStr THEN close + 1 ELSE 6
         IN  << <<key, type, value>> >> \o
             (IF next <= Len(t) /\ t[next] = ","
              THEN ParseMembers(SubSeq(t, next + 1, Len(t)))
              ELSE <<>>)

\* json.loads(text) of an object
json_loads(s) == ParseMembers(Tail(s))

(***************************************************************************)
(* TopicConfigBuilder: the six template_config_* functions.                *)
(***************************************************************************)
HA == <<"homeassistant", "/">>

template_config_motion(name) ==
    << <<"name", "str", name>>,
       <<"unique_id", "str", name \o <<"_", "motion">> >>,
       <<"device_class", "str", <<"motion">> >>,
       <<"state_topic", "str",
         HA \o <<"binary_sensor", "/">> \o name \o <<"/", "state">> >> >>

template_config_temperature(name) ==
    << <<"name", "str", name \o <<" Temperature">> >>,
       <<"device_class", "str", <<"temperature">> >>,
       <<"state_topic", "str",
         HA \o <<"sensor", "/">> \o name \o <<"T", "/", "state">> >>,
       <<"unit_of_measurement", "str", <<"F">> >>,
       <<"value_template", "str", <<"{{ value_json.temperature }}">> >> >>

template_config_humidity(name) ==
    << <<"name", "str", name \o <<" Humidity">> >>,
       <<"device_class", "str", <<"humidity">> >>,
       <<"state_topic", "str",
         HA \o <<"sensor", "/">> \o name \o <<"H", "/", "state">> >>,
       <<"unit_of_measurement", "str", <<"%">> >>,
       <<"value_template", "str", <<"{{ value_json.humidity }}">> >> >>

template_config_light(name) ==
    << <<"name", "str", name>>,
       <<"unique_id", "str", name \o <<"_", "light">> >>,
       <<"command_topic", "str",
         HA \o <<"light", "/">> \o name \o <<"/", "set">> >>,
       <<"state_topic", "str",
         HA \o <<"light", "/">> \o name \o <<"/", "state">> >>,
       <<"schema", "str", <<"json">> >>,
       <<"brightness", "bool", <<"true">> >> >>

template_config_switch(name) ==
    << <<"name", "str", name>>,
       <<"unique_id", "str", name \o <<"_", "switch">> >>,
       <<"command_topic", "str",
         HA \o <<"switch", "/">> \o name \o <<"/", "set">> >>,
       <<"state_topic", "str",
         HA \o <<"switch", "/">> \o name \o <<"/", "state">> >>,
       <<"value_template", "str", <<"{{ value_json.state }}">> >> >>

template_config_climate(name) ==
    LET base == HA \o <<"climate", "/">> \o name \o <<"/">>
    IN  << <<"name", "str", name>>,
           <<"unique_id", "str", name \o <<"_", "climate">> >>,
           <<"mode_cmd_t", "str", base \o <<"thermostatModeCmd">> >>,
           <<"mode_stat_t", "str", base \o <<"state">> >>,
           <<"mode_stat_tpl", "str", <<>> >>,
           <<"avty_t", "str", base \o <<"available">> >>,
           <<"pl_avail", "str", <<"online">> >>,
           <<"pl_not_avail", "str", <<"offline">> >>,
           <<"temp_cmd_t", "str", base \o <<"targetTempCmd">> >>,
           <<"temp_stat_t", "str", base \o <<"state">> >>,
           <<"state_topic", "str", base \o <<"state">> >>,
           <<"temp_stat_tpl", "str", <<>> >>,
           <<"curr_temp_t", "str", base \o <<"state">> >>,
           <<"curr_temp_tpl", "str", <<>> >>,
           <<"min_temp", "str", <<"60">> >>,
           <<"max_temp", "str", <<"110">> >>,
           <<"temp_step", "str", <<"0.5">> >>,
           <<"modes", "list", <<"off", "heat">> >> >>

Classes == {"motion", "temperature", "humidity", "light", "switch", "climate"}

\* the builder of a class, applied to a device id
build(class, name) ==
    CASE class = "motion"      -> template_config_motion(name)
      [] class = "temperature" -> template_config_temperature(name)
      [] class = "humidity"    -> template_config_humidity(name)
      [] class = "light"       -> template_config_light(name)
      [] class = "switch"      -> template_config_switch(name)
      [] class = "climate"     -> template_config_climate(name)

get_parent_topic_short(config_template) ==
    LET parts == Split(Get(config_template, "state_topic"), "/")
    IN  Join(SubSeq(parts, 1, Len(parts) - 2), "/")

\* drop the last segment of the config's state_topic
get_parent_topic(config_template) ==
    LET parts == Split(Get(config_template, "state_topic"), "/")
    IN  Join(SubSeq(parts, 1, Len(parts) - 1), "/")

(***************************************************************************)
(* StateGenerator: the random_state_* functions.  A generator is the set    *)
(* of payloads its random draws can produce; random.uniform is sampled at   *)
(* the two ends of its interval.                                            *)
(***************************************************************************)
OnOff == {"ON", "OFF"}
TemperatureSamples == {"60.0", "110.0"}
HumiditySamples == {"0", "100"}
BrightnessSamples == {"0", "255"}
ClimateModes == {"off", "heat"}
ClimateTempSamples == {"60.00", "110.00"}

random_state_binary_sensor ==
    {json_dumps(<< <<"state", "str", <<s>> >> >>) : s \in OnOff}

random_state_sensor ==
    {json_dumps(<< <<"temperature", "str", <<t>> >>,
                   <<"humidity", "str", <<h>> >> >>) :
        t \in TemperatureSamples, h \in HumiditySamples}

random_state_switch ==
    {json_dumps(<< <<"state", "str", <<s>> >> >>) : s \in OnOff}

random_state_light ==
    {json_dumps(<< <<"state", "str", <<s>> >>,
                   <<"brightness", "int", <<b>> >> >>) :
        s \in OnOff, b \in BrightnessSamples}

random_state_climate ==
    {json_dumps(<< <<"mode", "str", <<m>> >>,
                   <<"target_temp", "str", <<t>> >>,
                   <<"current_temp", "str", <<c>> >> >>) :
        m \in ClimateModes, t \in ClimateTempSamples, c \in ClimateTempSamples}

\* the module's global names of the form random_state_<component>
GeneratorNames ==
    {<<"random_state_", "binary_sensor">>, <<"random_state_", "sensor">>,
     <<"random_state_", "switch">>, <<"random_state_", "light">>,
     <<"random_state_", "climate">>}

\* globals()[name]()
CallGenerator(name) ==
    CASE name = <<"random_state_", "binary_sensor">> -> random_state_binary_sensor
      [] name = <<"random_state_", "sensor">>        -> random_state_sensor
      [] name = <<"random_state_", "switch">>        -> random_state_switch
      [] name = <<"random_state_", "light">>         -> random_state_light
      [] name = <<"random_state_", "climate">>       -> random_state_climate

(***************************************************************************)
(* publish and publish_random_state.  A call is the set of its outcomes:    *)
(* what was handed to the transport, the transport's result, the level of   *)
(* the line logged, and the exception raised, if any.                       *)
(***************************************************************************)
NoResult == -1
MQTT_ERR_SUCCESS == 0
MQTT_ERR_NO_CONN == 4
PublishResults == {MQTT_ERR_SUCCESS, MQTT_ERR_NO_CONN}

NoMsg == [topic |-> <<>>, payload |-> <<>>, retain |-> FALSE]

Raise(exception) ==
    [raised |-> exception, sent |-> NoMsg, result |-> NoResult,
     level |-> "traceback"]

publish_raising(topic_, payload, retain) ==
    {[raised |-> IF rc = MQTT_ERR_SUCCESS THEN "none" ELSE "PublishError",
      sent   |-> [topic |-> topic_, payload |-> payload, retain |-> retain],
      result |-> rc,
      level  |-> IF rc = MQTT_ERR_SUCCESS THEN "info" ELSE "error"] :
        rc \in PublishResults}

publish(topic_, payload, retain) ==
    {[raised |-> "none",
      sent   |-> [topic |-> topic_, payload |-> payload, retain |-> retain],
      result |-> rc,
      level  |-> IF rc = MQTT_ERR_SUCCESS THEN "info" ELSE "error"] :
        rc \in PublishResults}

publish_random_state_unretained(topic_) ==
    LET state_topic == topic_ \o <<"/", "state">>
        parts       == Split(topic_, "/")
    IN  IF Len(parts) < 2 THEN {Raise("IndexError")}
        ELSE IF <<"random_state_">> \o parts[2] \notin GeneratorNames
        THEN {Raise("KeyError")}
        ELSE UNION {publish(state_topic, state, FALSE) :
                       state \in CallGenerator(<<"random_state_">> \o parts[2])}

publish_random_state(topic_) ==
    LET state_topic == topic_ \o <<"/", "state">>
        parts       == Split(topic_, "/")
    IN  IF Len(parts) < 2 THEN {Raise("IndexError")}
        ELSE LET component == parts[2]
                 generator == <<"random_state_">> \o component
             IN  IF generator \notin GeneratorNames THEN {Raise("KeyError")}
                 ELSE UNION {
                     IF Contains("binary_sensor", state_topic)
                        /\ Contains("motion", state_topic)
                     THEN LET doc == json_loads(state)
                          IN  IF HasKey(doc, "state")
                              THEN publish(state_topic, Get(doc, "state"), TRUE)
                              ELSE {Raise("KeyError")}
                     ELSE publish(state_topic, state, TRUE) :
                         state \in CallGenerator(generator)}

(***************************************************************************)
(* DeviceCatalog: the configs list of main(), and the catalogs the          *)
(* scheduler is run on.                                                     *)
(***************************************************************************)
MainConfigs ==
    << template_config_motion(<<"bedroom-", "motion", "1">>),
       template_config_temperature(<<"bedroom-temp1">>),
       template_config_humidity(<<"bedroom-temp1">>),
       template_config_light(<<"bedroom-light1">>),
       template_config_light(<<"bedroom-lamp1">>),
       template_config_light(<<"bedroom-lamp2">>),
       template_config_motion(<<"office-", "motion", "1">>),
       template_config_temperature(<<"office-temp1">>),
       template_config_humidity(<<"office-temp1">>),
       template_config_light(<<"bedroom-light1">>),
       template_config_light(<<"do-not-disturb-light1">>),
       template_config_motion(<<"lroom-", "motion", "1">>),
       template_config_temperature(<<"lroom-temp1">>),
       template_config_humidity(<<"lroom-temp1">>),
       template_config_light(<<"lroom-light1">>),
       template_config_switch(<<"lroom-tv1">>),
       template_config_motion(<<"garage-", "motion", "1">>),
       template_config_temperature(<<"garage-freezer-temp1">>),
       template_config_light(<<"garage-light1">>),
       template_config_switch(<<"garage-tv1">>),
       template_config_motion(<<"garden-", "motion", "1">>),
       template_config_light(<<"garden-path-lights1">>),
       template_config_switch(<<"garden-founain1">>) >>

\* device ids the builders are applied to besides those of main(): one
\* without "motion", one holding both words the unwrap looks for, one
\* holding a "/"
DeviceIds ==
    {<<"pir1">>, <<"binary_sensor", "-", "motion">>, <<"a", "/", "motion", "1">>}

\* a config whose component has no random_state_<component> generator
UnrecognisedConfig ==
    << <<"name", "str", <<"blind1">> >>,
       <<"state_topic", "str", HA \o <<"cover", "/", "blind1", "/", "state">> >> >>

ConfigPool ==
    {build(class, name) : class \in Classes, name \in DeviceIds}
        \cup {UnrecognisedConfig}

\* the catalog of main() and every non-empty catalog of at most MaxCatalog
\* entries of the pool
Catalogs ==
    {MainConfigs} \cup UNION {[1..n -> ConfigPool] : n \in 1..MaxCatalog}

(***************************************************************************)
(* PublishScheduler: main().                                                *)
(***************************************************************************)
VARIABLES
    configs,    \* the catalog
    pc,         \* position of main()
    topics,     \* the parent topics stored by the announce loop
    idx,        \* position of the running for loop in its list
    topic,      \* the local variable topic
    sent,       \* the message the last step handed to the transport, or NoMsg
    result,     \* the transport's result of that publish, or NoResult
    level,      \* level of the last line logged
    history,    \* the publishes of the announce and settle loops, in order
    ticks       \* steady-state publishes so far, counted up to MaxTicks

vars == <<configs, pc, topics, idx, topic, sent, result, level, history, ticks>>

CONNACK_ACCEPTED == 0
CONNACK_REFUSED_NOT_AUTHORIZED == 5
ConnectResults == {CONNACK_ACCEPTED, CONNACK_REFUSED_NOT_AUTHORIZED}

Init ==
    /\ configs \in Catalogs
    /\ pc = "connect"
    /\ topics = <<>>
    /\ idx = 0
    /\ topic = <<>>
    /\ sent = NoMsg
    /\ result = NoResult
    /\ level = "none"
    /\ history = <<>>
    /\ ticks = 0

InitMain == Init /\ configs = MainConfigs

\* the effect of a call of publish or publish_random_state made in a phase:
\* an exception ends the run, otherwise main() goes on at nextPc
Call(out, phase, nextPc, nextIdx) ==
    /\ sent' = out.sent
    /\ result' = out.result
    /\ level' = out.level
    /\ IF out.raised = "none"
       THEN /\ pc' = nextPc
            /\ idx' = nextIdx
            /\ history' = IF phase = "poll" THEN history
                          ELSE Append(history,
                                      [topic |-> out.sent.topic,
                                       retain |-> out.sent.retain,
                                       phase |-> phase])
       ELSE /\ pc' = "crashed"
            /\ UNCHANGED <<idx, history>>

NoCall == sent' = NoMsg /\ result' = NoResult

\* connect_mqtt and client.loop(): on_connect raises on a refused connection
Connect ==
    /\ pc = "connect"
    /\ \E rc \in ConnectResults :
          IF rc = CONNACK_ACCEPTED
          THEN pc' = "announce" /\ idx' = 1 /\ level' = "info"
          ELSE pc' = "failed" /\ idx' = idx /\ level' = "traceback"
    /\ NoCall
    /\ UNCHANGED <<configs, topics, topic, history, ticks>>

\* one iteration of `for config in configs`
AnnounceReversed ==
    /\ pc = "announce"
    /\ idx <= Len(configs)
    /\ LET t == get_parent_topic(configs[idx])
       IN  /\ topic' = t
           /\ topics' = <<t>> \o topics
           /\ \E out \in publish(t \o <<"/", "config">>,
                                 json_dumps(configs[idx]), TRUE) :
                 Call(out, "announce", "announce", idx + 1)
    /\ UNCHANGED <<configs, ticks>>

Announce ==
    /\ pc = "announce"
    /\ idx <= Len(configs)
    /\ LET t == get_parent_topic(configs[idx])
       IN  /\ topic' = t
           /\ topics' = Append(topics, t)
           /\ \E out \in publish(t \o <<"/", "config">>,
                                 json_dumps(configs[idx]), TRUE) :
                 Call(out, "announce", "announce", idx + 1)
    /\ UNCHANGED <<configs, ticks>>

\* `for config in configs` is exhausted
AnnounceDone ==
    /\ pc = "announce"
    /\ idx > Len(configs)
    /\ pc' = "settle1"
    /\ idx' = 1
    /\ NoCall
    /\ UNCHANGED <<configs, topics, topic, level, history, ticks>>

\* `for topic in topics`: the first publish_random_state of an iteration
SettleFirst ==
    /\ pc = "settle1"
    /\ idx <= Len(topics)
    /\ topic' = topics[idx]
    /\ \E out \in publish_random_state(topics[idx]) :
          Call(out, "settle", "settleSleep", idx)
    /\ UNCHANGED <<configs, topics, ticks>>

\* time.sleep(5) between the two publishes
SettleSleep ==
    /\ pc = "settleSleep"
    /\ pc' = "settle2"
    /\ NoCall
    /\ UNCHANGED <<configs, topics, idx, topic, level, history, ticks>>

\* the second publish_random_state of an iteration
SettleSecond ==
    /\ pc = "settle2"
    /\ \E out \in publish_random_state(topic) :
          Call(out, "settle", "settle1", idx + 1)
    /\ UNCHANGED <<configs, topics, topic, ticks>>

\* `for topic in topics` is exhausted
SettleDone ==
    /\ pc = "settle1"
    /\ idx > Len(topics)
    /\ pc' = "poll"
    /\ NoCall
    /\ UNCHANGED <<configs, topics, idx, topic, level, history, ticks>>

\* `while True`: topic = random.choice(topics)
PollChoose ==
    /\ pc = "poll"
    /\ IF topics = <<>>
       THEN pc' = "crashed" /\ level' = "traceback" /\ topic' = topic
       ELSE /\ \E k \in 1..Len(topics) : topic' = topics[k]
            /\ pc' = "pollPublish"
            /\ level' = level
    /\ NoCall
    /\ UNCHANGED <<configs, topics, idx, history, ticks>>

\* publish_random_state(client, topic)
PollPublish ==
    /\ pc = "pollPublish"
    /\ \E out \in publish_random_state(topic) :
          /\ Call(out, "poll", "pollSleep", idx)
          /\ ticks' = IF out.raised = "none" /\ ticks < MaxTicks
                      THEN ticks + 1 ELSE ticks
    /\ UNCHANGED <<configs, topics, topic>>

\* time.sleep(5), then the loop runs again
PollSleepExit ==
    /\ pc = "pollSleep"
    /\ pc' = IF ticks < MaxTicks THEN "poll" ELSE "done"
    /\ NoCall
    /\ UNCHANGED <<configs, topics, idx, topic, level, history, ticks>>

PollSleep ==
    /\ pc = "pollSleep"
    /\ pc' = "poll"
    /\ NoCall
    /\ UNCHANGED <<configs, topics, idx, topic, level, history, ticks>>

Next ==
    \/ Connect
    \/ Announce
    \/ AnnounceDone
    \/ SettleFirst
    \/ SettleSleep
    \/ SettleSecond
    \/ SettleDone
    \/ PollChoose
    \/ PollPublish
    \/ PollSleep

Spec == Init /\ [][Next]_vars

MainSpec == InitMain /\ [][Next]_vars

\* main() on its own catalog, running on: a step that can be taken is taken
FairSpec == MainSpec /\ WF_vars(Next)

(***************************************************************************)
(* The process under an external signal: main() installs no handler, so    *)
(* SIGINT or SIGTERM ends the process at whatever statement it is at.       *)
(***************************************************************************)
Running ==
    {"connect", "announce", "settle1", "settleSleep", "settle2",
     "poll", "pollPublish", "pollSleep"}

Signal ==
    /\ pc \in Running
    /\ pc' = "killed"
    /\ UNCHANGED <<configs, topics, idx, topic, sent, result, level,
                   history, ticks>>

NextSignal == Next \/ Signal

SignalSpec == Init /\ [][NextSignal]_vars

TypeOK ==
    /\ pc \in Running \cup {"failed", "crashed"}
    /\ idx \in 0..(Len(configs) + 1)
    /\ ticks \in 0..MaxTicks
    /\ result \in PublishResults \cup {NoResult}
    /\ level \in {"none", "info", "error", "traceback"}

(***************************************************************************)
(* Vocabulary of the properties.                                            *)
(***************************************************************************)
PollPcs == {"poll", "pollPublish", "pollSleep"}
SettlePcs == {"settle1", "settleSleep", "settle2"}

ConfigTopic(config) == get_parent_topic(config) \o <<"/", "config">>
StateTopic(config) == get_parent_topic(config) \o <<"/", "state">>

EndsWith(t, leaf) ==
    Len(t) >= 2 /\ SubSeq(t, Len(t) - 1, Len(t)) = <<"/", leaf>>

ConfigPubs == SelectSeq(history, LAMBDA h : h.phase = "announce")
SettlePubs == SelectSeq(history, LAMBDA h : h.phase = "settle")

IsMotionClass(config) ==
    HasKey(config, "device_class") /\ Get(config, "device_class") = <<"motion">>

Recognised(config) ==
    LET parts == Split(get_parent_topic(config), "/")
    IN  Len(parts) >= 2 /\ <<"random_state_">> \o parts[2] \in GeneratorNames

BareOnOff == {<<"ON">>, <<"OFF">>}

Wrapped(payload) == payload # <<>> /\ Head(payload) = "{"

\* where main() is after a publish made at position p of loop element i
Progress(p, i) ==
    CASE p = "announce"    -> <<"announce", i + 1>>
      [] p = "settle1"     -> <<"settleSleep", i>>
      [] p = "settle2"     -> <<"settle1", i + 1>>
      [] p = "pollPublish" -> <<"pollSleep", i>>
      [] OTHER             -> <<"none", i>>

Rank(p) ==
    CASE p = "connect"    -> 0
      [] p = "announce"   -> 1
      [] p \in SettlePcs  -> 2
      [] p \in PollPcs    -> 3
      [] OTHER            -> 4

(***************************************************************************)
(* C1: on the catalog of main(), once the announce loop is over exactly K   *)
(* config publishes have been issued, the n-th to <parent>/config of the    *)
(* n-th catalog entry, all retained, and the K topics are pairwise          *)
(* distinct.                                                                *)
(***************************************************************************)
C1_DistinctRetainedConfigs ==
    (configs = MainConfigs /\ pc \in SettlePcs \cup PollPcs) =>
        /\ Len(ConfigPubs) = Len(configs)
        /\ \A n \in 1..Len(ConfigPubs) :
              /\ ConfigPubs[n].retain
              /\ ConfigPubs[n].topic = ConfigTopic(configs[n])
        /\ \A m, n \in 1..Len(ConfigPubs) :
              m # n => ConfigPubs[m].topic # ConfigPubs[n].topic

(***************************************************************************)
(* C2: on the catalog of main(), when settling is over (steady-state        *)
(* polling has begun) every parent topic's <parent>/state has received      *)
(* exactly two settle publishes, all retained, and no steady-state publish  *)
(* was made before them.                                                    *)
(***************************************************************************)
C2_TwoSettlePublishesPerTopic ==
    /\ (pc \in SettlePcs => ticks = 0)
    /\ (configs = MainConfigs /\ pc \in PollPcs) =>
          \A k \in 1..Len(topics) :
              /\ Cardinality({n \in 1..Len(SettlePubs) :
                    SettlePubs[n].topic = topics[k] \o <<"/", "state">>}) = 2
              /\ \A n \in 1..Len(SettlePubs) : SettlePubs[n].retain

(***************************************************************************)
(* C3: a state message published for a motion-class device carries the     *)
(* bare token ON or OFF, and a state message published for a device of any  *)
(* other class carries the wrapped document.                                *)
(***************************************************************************)
C3_MotionBareOthersWrapped ==
    \A k \in 1..Len(configs) :
        (sent # NoMsg /\ sent.topic = Get(configs[k], "state_topic")) =>
            IF IsMotionClass(configs[k])
            THEN sent.payload \in BareOnOff
            ELSE Wrapped(sent.payload)

(***************************************************************************)
(* C4: every message handed to the transport for a <parent>/config or a    *)
(* <parent>/state topic, in any phase, has retain = TRUE.                   *)
(***************************************************************************)
C4_AlwaysRetained ==
    /\ (sent # NoMsg /\ (EndsWith(sent.topic, "config")
                         \/ EndsWith(sent.topic, "state"))) => sent.retain
    /\ \A n \in 1..Len(history) : history[n].retain

C4_Witness ==
    /\ pc = "pollSleep"
    /\ ticks >= 2
    /\ EndsWith(sent.topic, "state")
    /\ sent.retain
    /\ \E n \in 1..Len(history) : EndsWith(history[n].topic, "config")

(***************************************************************************)
(* C5: for every config of the catalog, get_parent_topic(config) + "/state" *)
(* is the config's state_topic, and the topic of every message handed to    *)
(* the transport is get_parent_topic + "/config" (announce) or the          *)
(* state_topic (settle, poll) of the catalog entry the loop is at.          *)
(***************************************************************************)
C5_ParentTopicRoundTrip ==
    /\ \A k \in 1..Len(configs) :
          StateTopic(configs[k]) = Get(configs[k], "state_topic")
    /\ (sent # NoMsg /\ pc = "announce") =>
          sent.topic = ConfigTopic(configs[idx - 1])
    /\ (sent # NoMsg /\ pc = "settleSleep") =>
          sent.topic = Get(configs[idx], "state_topic")
    /\ (sent # NoMsg /\ pc = "settle1") =>
          sent.topic = Get(configs[idx - 1], "state_topic")
    /\ (sent # NoMsg /\ pc = "pollSleep") =>
          \E k \in 1..Len(configs) :
              /\ topic = get_parent_topic(configs[k])
              /\ sent.topic = Get(configs[k], "state_topic")

C5_Witness ==
    /\ pc = "pollSleep"
    /\ sent # NoMsg
    /\ \E k \in 1..Len(configs) :
          /\ configs[k] = template_config_climate(<<"a", "/", "motion", "1">>)
          /\ sent.topic = Get(configs[k], "state_topic")
    /\ \E k \in 1..Len(configs) :
          configs[k] = template_config_temperature(<<"pir1">>)

(***************************************************************************)
(* C6: a publish whose transport result is not success logs an error and    *)
(* leaves main() exactly where a successful publish leaves it: same next    *)
(* position, same loop element, the run not aborted.                        *)
(***************************************************************************)
C6_FailedPublishRecovered ==
    [][(result' # NoResult /\ result' # MQTT_ERR_SUCCESS) =>
          /\ level' = "error"
          /\ <<pc', idx'>> = Progress(pc, idx)
          /\ pc' \notin {"crashed", "failed"}]_vars

C6_Witness ==
    /\ result = MQTT_ERR_NO_CONN
    /\ level = "error"
    /\ pc = "pollSleep"
    /\ ticks >= 2
    /\ Len(configs) >= 2

(***************************************************************************)
(* C7: a catalog holding a device whose component the generator dispatch    *)
(* does not recognise aborts before anything is published: no config and    *)
(* no state message of any device is ever handed to the transport.          *)
(***************************************************************************)
C7_UnrecognisedAbortsAtStartup ==
    (\E k \in 1..Len(configs) : ~Recognised(configs[k])) =>
        /\ history = <<>>
        /\ sent = NoMsg
        /\ pc \notin SettlePcs \cup PollPcs

(***************************************************************************)
(* C8: steady-state polling has no internal exit and ticks for ever: from   *)
(* the loop head a topic is chosen, then exactly one retained message is    *)
(* published to <topic>/state for a member of the topic list, then the      *)
(* pause, then the loop head again.                                         *)
(***************************************************************************)
C8_PollsForever ==
    /\ [][(pc \in PollPcs) => (pc' \in PollPcs)]_vars
    /\ [][(pc = "pollPublish") =>
            /\ pc' = "pollSleep"
            /\ sent' # NoMsg
            /\ sent'.retain
            /\ sent'.topic = topic \o <<"/", "state">>
            /\ \E k \in 1..Len(topics) : topic = topics[k]]_vars
    /\ [][(pc = "pollSleep") => (pc' = "poll" /\ sent' = NoMsg)]_vars
    /\ (pc = "poll") ~> (pc = "pollPublish")
    /\ (pc = "pollPublish") ~> (pc = "pollSleep")
    /\ (pc = "pollSleep") ~> (pc = "poll")

C8_Witness ==
    /\ pc = "pollSleep"
    /\ ticks >= 2
    /\ Len(topics) >= 2
    /\ topic = topics[Len(topics)]

(***************************************************************************)
(* C9: a stop raised during the polling phase takes effect between ticks    *)
(* only: the process never stops between the choice of a tick's topic and   *)
(* the completion of that tick's publish.                                   *)
(***************************************************************************)
C9_StopOnlyBetweenTicks ==
    [][(pc \in PollPcs /\ pc' = "killed") => pc \in {"poll", "pollSleep"}]_vars

(***************************************************************************)
(* C10: the phases come in the order connect, announce, settle, poll; the   *)
(* first K publishes are the configs in catalog order, the next 2K are the  *)
(* settle publishes, two per catalog entry, in catalog order; polling       *)
(* starts after all of them and publishes state only for topics whose       *)
(* config was published.                                                    *)
(***************************************************************************)
C10_PhaseAndCatalogOrder ==
    /\ [][Rank(pc') >= Rank(pc)]_vars
    /\ [](\A n \in 1..Len(history) :
            IF n <= Len(configs)
            THEN /\ history[n].phase = "announce"
                 /\ history[n].topic = ConfigTopic(configs[n])
            ELSE /\ history[n].phase = "settle"
                 /\ history[n].topic =
                        StateTopic(configs[(n - Len(configs) + 1) \div 2]))
    /\ [](pc \in PollPcs => Len(history) = 3 * Len(configs))
    /\ []((pc \in PollPcs /\ sent # NoMsg) =>
            \E n \in 1..Len(configs) :
                /\ history[n].phase = "announce"
                /\ history[n].topic =
                      SubSeq(sent.topic, 1, Len(sent.topic) - 1)
                      \o <<"config">>)

C10_Witness ==
    /\ configs = MainConfigs
    /\ pc = "pollSleep"
    /\ sent # NoMsg
    /\ Len(history) = 3 * Len(configs)

=============================================================================
